---- MODULE Spec2Model ----
(***************************************************************************)
(* Model of STM32/serial.c: the interrupt-driven UART receive/transmit     *)
(* queues.  The foreground context runs setup_uart, uart_putch and         *)
(* uart_getch one statement at a time; the interrupt handler ISR(USART2)   *)
(* preempts the foreground between any two statements and runs to          *)
(* completion (it is never preempted by the foreground).                   *)
(***************************************************************************)
EXTENDS Integers, Sequences, FiniteSets, TLC

\* Buffer sizes (serial.c lines 57-58 set 16 and 128; the model checks the
\* same code with small capacities so that full, empty and wrap-around
\* all happen within a few operations).
UART_RXBUF_SIZE == 3
UART_TXBUF_SIZE == 3

\* Bounds of the exploration: number of uart_putch calls, number of
\* data-available events, number of setup_uart calls.
MaxPut == 4
MaxRx == 4
MaxSetup == 2
\* Number of bytes (uart_putch calls plus data-available events) in the runs
\* in which setup_uart is called again.
MaxResetEvents == 4

\* serial_txbytes / serial_rxbytes are unsigned long and wrap at 2^32
\* (lines 114-115).  The model keeps the wrap-around but at a reduced range,
\* so that it happens within the exploration.
ULONG_RANGE == 4

\* Byte values used as inputs.  The code never branches on a byte value, so
\* the k-th byte of each direction is given a value of its own: any byte
\* that is lost, repeated or reordered then shows in the histories.  The
\* received bytes start at 0xFF and 0x00, the transmitted ones straddle the
\* sign bit of char.
RxInput(k) == {(255 + k) % 256}
TxInput(k) == {(127 + k) % 256}

\* Bits of USART_CR1 (armduino.h names used at lines 144, 185, 216).
USART_UE == "UE"
USART_TE == "TE"
USART_RE == "RE"
USART_RXNEIE == "RXNEIE"
USART_TXEIE == "TXEIE"
\* Bits of USART_SR tested by the handler (lines 125, 136).
USART_RXNE == "RXNE"
USART_TXE == "TXE"

VARIABLES
    rxbuf, txbuf,           \* uart0.rxbuf, uart0.txbuf
    rxhead, rxtail,         \* uart0.rxhead, uart0.rxtail
    txhead, txtail,         \* uart0.txhead, uart0.txtail
    serial_txbytes, serial_rxbytes,
    CR1,                    \* USART_CR1, the set of bits that are 1
    nvic,                   \* USART interrupt enabled in the NVIC (INTR_SETENA)
    charSigned,             \* the build's signedness of plain char
    pc,                     \* foreground position (source line of next statement)
    arg,                    \* uart_putch's parameter c
    fi, fj, fc,             \* foreground locals i, j, c
    tmp,                    \* value of USART_CR1 read by "|=" before it is written back
    pend,                   \* stores of a chained assignment not yet performed
    ret,                    \* value returned by the last foreground call
    out,                    \* sequence of bytes written to USART_DR
    accepted,               \* bytes for which uart_putch returned 0
    rxStored,               \* received bytes the handler stored in rxbuf
    got,                    \* byte values returned by uart_getch
    nput, nrx, setups,      \* calls of uart_putch, data-available events, setup_uart calls
    ntx,                    \* transmit-path invocations of the handler
    run                     \* uart_putch calls since an empty transmit buffer with no
                            \* transmit-path handler invocation since (-1: none)

queue == <<rxbuf, txbuf, rxhead, rxtail, txhead, txtail>>
counters == <<serial_txbytes, serial_rxbytes>>
fgvars == <<pc, arg, fi, fj, fc, tmp, pend, ret, accepted, got, nput, setups>>
vars == <<rxbuf, txbuf, rxhead, rxtail, txhead, txtail, serial_txbytes,
          serial_rxbytes, CR1, nvic, charSigned, pc, arg, fi, fj, fc, tmp, pend,
          ret, out, accepted, rxStored, got, nput, nrx, setups, ntx, run>>

\* Conversion of an int to plain char and to unsigned char.
ToChar(n) == IF charSigned THEN ((n + 128) % 256) - 128 ELSE n % 256
ToUChar(n) == n % 256

\* Static storage is zero-initialised; the peripheral is in its reset state.
Init ==
    /\ rxbuf = [k \in 0..(UART_RXBUF_SIZE - 1) |-> 0]
    /\ txbuf = [k \in 0..(UART_TXBUF_SIZE - 1) |-> 0]
    /\ rxhead = 0 /\ rxtail = 0 /\ txhead = 0 /\ txtail = 0
    /\ serial_txbytes = 0 /\ serial_rxbytes = 0
    /\ CR1 = {}
    /\ nvic = FALSE
    /\ charSigned \in BOOLEAN
    /\ pc = "start"
    /\ arg = 0 /\ fi = 0 /\ fj = 0 /\ fc = 0
    /\ tmp = {} /\ pend = {}
    /\ ret = 0
    /\ out = <<>> /\ accepted = <<>> /\ rxStored = <<>> /\ got = <<>>
    /\ nput = 0 /\ nrx = 0 /\ setups = 0 /\ ntx = 0
    /\ run = -1

----------------------------------------------------------------------------
(* ISR(USART2), lines 118-148 *)

\* lines 127-129: i = rxhead + 1; if (i >= UART_RXBUF_SIZE) i = 0;
RxNext(h) == IF h + 1 >= UART_RXBUF_SIZE THEN 0 ELSE h + 1

\* lines 139-140: i++; if (i >= UART_TXBUF_SIZE) i = 0;
TxNext(t) == IF t + 1 >= UART_TXBUF_SIZE THEN 0 ELSE t + 1

\* Mutant of RxRoom: the handler stores without testing for a full queue.
RxRoom_always(i) == TRUE

\* line 130: the receive queue is not full
RxRoom(i) == i # rxtail

\* line 138: the transmit queue is not empty
TxPending(i) == i # txhead

\* Mutant of IsrRx: the counter is incremented only for a stored byte.
IsrRx_countStored(c) ==
    LET i == RxNext(rxhead) IN
    /\ IF RxRoom(i)
          THEN /\ rxbuf' = [rxbuf EXCEPT ![rxhead] = ToUChar(c)]
               /\ rxhead' = i
               /\ rxStored' = Append(rxStored, ToUChar(c))
               /\ serial_rxbytes' = (serial_rxbytes + 1) % ULONG_RANGE
          ELSE UNCHANGED <<rxbuf, rxhead, rxStored, serial_rxbytes>>
    /\ nrx' = nrx + 1

\* lines 125-135: the receive path, c the byte read from USART_DR
IsrRx(c) ==
    LET i == RxNext(rxhead) IN
    /\ IF RxRoom(i)
          THEN /\ rxbuf' = [rxbuf EXCEPT ![rxhead] = ToUChar(c)]
               /\ rxhead' = i
               /\ rxStored' = Append(rxStored, ToUChar(c))
          ELSE UNCHANGED <<rxbuf, rxhead, rxStored>>
    /\ serial_rxbytes' = (serial_rxbytes + 1) % ULONG_RANGE
    /\ nrx' = nrx + 1

\* Mutant of IsrTx: the interrupt is disabled by the invocation that writes
\* the last queued byte.
IsrTx_disableOnDrain ==
    LET i == txtail IN
    /\ IF TxPending(i)
          THEN /\ out' = Append(out, txbuf[i])
               /\ txtail' = TxNext(i)
               /\ CR1' = IF TxNext(i) = txhead THEN CR1 \ {USART_TXEIE} ELSE CR1
          ELSE /\ CR1' = CR1 \ {USART_TXEIE}
               /\ UNCHANGED <<out, txtail>>
    /\ serial_txbytes' = (serial_txbytes + 1) % ULONG_RANGE
    /\ ntx' = ntx + 1
    /\ run' = -1

\* Mutant of IsrTx: the counter is incremented only when a byte is written.
IsrTx_countSent ==
    LET i == txtail IN
    /\ IF TxPending(i)
          THEN /\ out' = Append(out, txbuf[i])
               /\ txtail' = TxNext(i)
               /\ serial_txbytes' = (serial_txbytes + 1) % ULONG_RANGE
               /\ UNCHANGED CR1
          ELSE /\ CR1' = CR1 \ {USART_TXEIE}
               /\ UNCHANGED <<out, txtail, serial_txbytes>>
    /\ ntx' = ntx + 1
    /\ run' = -1

\* Mutant of IsrTx: the empty branch leaves the interrupt enabled.
IsrTx_neverDisable ==
    LET i == txtail IN
    /\ IF TxPending(i)
          THEN /\ out' = Append(out, txbuf[i])
               /\ txtail' = TxNext(i)
          ELSE UNCHANGED <<out, txtail>>
    /\ UNCHANGED CR1
    /\ serial_txbytes' = (serial_txbytes + 1) % ULONG_RANGE
    /\ ntx' = ntx + 1
    /\ run' = -1

\* lines 136-147: the transmit path
IsrTx ==
    LET i == txtail IN
    /\ IF TxPending(i)
          THEN /\ out' = Append(out, txbuf[i])
               /\ txtail' = TxNext(i)
               /\ UNCHANGED CR1
          ELSE /\ CR1' = CR1 \ {USART_TXEIE}
               /\ UNCHANGED <<out, txtail>>
    /\ serial_txbytes' = (serial_txbytes + 1) % ULONG_RANGE
    /\ ntx' = ntx + 1
    /\ run' = -1

\* The handler is entered when the interrupt is enabled in the NVIC and a
\* status flag whose interrupt enable bit is set in CR1 is raised; it then
\* tests both flags of the status it read (line 124).
ISR ==
    \E status \in SUBSET {USART_RXNE, USART_TXE} :
      \E data \in RxInput(nrx) :
        /\ nvic
        /\ \/ USART_RXNE \in status /\ USART_RXNEIE \in CR1
           \/ USART_TXE \in status /\ USART_TXEIE \in CR1
        /\ USART_RXNE \in status => nrx < MaxRx
        /\ IF USART_RXNE \in status
              THEN IsrRx(data)
              ELSE UNCHANGED <<rxbuf, rxhead, rxStored, serial_rxbytes, nrx>>
        /\ IF USART_TXE \in status
              THEN IsrTx
              ELSE UNCHANGED <<out, txtail, CR1, serial_txbytes, ntx, run>>
        /\ UNCHANGED <<txbuf, rxtail, txhead, nvic, charSigned>>
        /\ UNCHANGED fgvars

----------------------------------------------------------------------------
(* uart_getch, lines 153-167 *)

Idle == {"setup_done", "putch_done", "getch_done"}

getch_call ==
    /\ pc \in Idle
    /\ pc' = "g158"
    /\ ret' = 0
    /\ UNCHANGED <<arg, fi, fj, fc, tmp, pend, accepted, got, nput, setups>>
    /\ UNCHANGED <<queue, counters, CR1, nvic, charSigned, out, rxStored, nrx, ntx, run>>

\* line 158: i = uart0.rxtail;
getch_158 ==
    /\ pc = "g158"
    /\ fi' = rxtail
    /\ pc' = "g159"
    /\ UNCHANGED <<arg, fj, fc, tmp, pend, ret, accepted, got, nput, setups>>
    /\ UNCHANGED <<queue, counters, CR1, nvic, charSigned, out, rxStored, nrx, ntx, run>>

\* line 159: j = uart0.rxhead;
getch_159 ==
    /\ pc = "g159"
    /\ fj' = rxhead
    /\ pc' = "g160"
    /\ UNCHANGED <<arg, fi, fc, tmp, pend, ret, accepted, got, nput, setups>>
    /\ UNCHANGED <<queue, counters, CR1, nvic, charSigned, out, rxStored, nrx, ntx, run>>

\* Mutant of RxAvail: the indices are compared with < instead of !=.
RxAvail_less(i, j) == i < j

\* line 160: if (i != j)
RxAvail(i, j) == i # j

getch_160 ==
    /\ pc = "g160"
    /\ pc' = IF RxAvail(fi, fj) THEN "g161" ELSE "g166"
    /\ UNCHANGED <<arg, fi, fj, fc, tmp, pend, ret, accepted, got, nput, setups>>
    /\ UNCHANGED <<queue, counters, CR1, nvic, charSigned, out, rxStored, nrx, ntx, run>>

\* line 161: c = uart0.rxbuf[i++];
getch_161 ==
    /\ pc = "g161"
    /\ fc' = rxbuf[fi]
    /\ fi' = fi + 1
    /\ pc' = "g162"
    /\ UNCHANGED <<arg, fj, tmp, pend, ret, accepted, got, nput, setups>>
    /\ UNCHANGED <<queue, counters, CR1, nvic, charSigned, out, rxStored, nrx, ntx, run>>

\* Mutant of RxWrap: the wrap tests > instead of >=.
RxWrap_late(i) == IF i > UART_RXBUF_SIZE THEN 0 ELSE i

\* line 162: if (i >= UART_RXBUF_SIZE) i = 0;
RxWrap(i) == IF i >= UART_RXBUF_SIZE THEN 0 ELSE i

getch_162 ==
    /\ pc = "g162"
    /\ fi' = RxWrap(fi)
    /\ pc' = "g163"
    /\ UNCHANGED <<arg, fj, fc, tmp, pend, ret, accepted, got, nput, setups>>
    /\ UNCHANGED <<queue, counters, CR1, nvic, charSigned, out, rxStored, nrx, ntx, run>>

\* Mutant of getch_163: the index is stored to rxhead instead of rxtail.
getch_163_head ==
    /\ pc = "g163"
    /\ rxhead' = fi
    /\ pc' = "g164"
    /\ UNCHANGED <<arg, fi, fj, fc, tmp, pend, ret, accepted, got, nput, setups>>
    /\ UNCHANGED <<rxbuf, txbuf, rxtail, txhead, txtail>>
    /\ UNCHANGED <<counters, CR1, nvic, charSigned, out, rxStored, nrx, ntx, run>>

\* line 163: uart0.rxtail = i;
getch_163 ==
    /\ pc = "g163"
    /\ rxtail' = fi
    /\ pc' = "g164"
    /\ UNCHANGED <<arg, fi, fj, fc, tmp, pend, ret, accepted, got, nput, setups>>
    /\ UNCHANGED <<rxbuf, txbuf, rxhead, txhead, txtail>>
    /\ UNCHANGED <<counters, CR1, nvic, charSigned, out, rxStored, nrx, ntx, run>>

\* line 164: return c;  (unsigned char converted to int)
getch_164 ==
    /\ pc = "g164"
    /\ ret' = fc
    /\ got' = Append(got, fc)
    /\ pc' = "getch_done"
    /\ fi' = 0 /\ fj' = 0 /\ fc' = 0
    /\ UNCHANGED <<arg, tmp, pend, accepted, nput, setups>>
    /\ UNCHANGED <<queue, counters, CR1, nvic, charSigned, out, rxStored, nrx, ntx, run>>

\* line 166: return -1;
getch_166 ==
    /\ pc = "g166"
    /\ ret' = -1
    /\ pc' = "getch_done"
    /\ fi' = 0 /\ fj' = 0 /\ fc' = 0
    /\ UNCHANGED <<arg, tmp, pend, accepted, got, nput, setups>>
    /\ UNCHANGED <<queue, counters, CR1, nvic, charSigned, out, rxStored, nrx, ntx, run>>

uart_getch ==
    \/ getch_call \/ getch_158 \/ getch_159 \/ getch_160 \/ getch_161
    \/ getch_162 \/ getch_163 \/ getch_164 \/ getch_166

----------------------------------------------------------------------------
(* uart_putch, lines 173-187 *)

putch_call(c) ==
    /\ pc \in Idle
    /\ nput < MaxPut
    /\ nput' = nput + 1
    /\ arg' = c
    /\ pc' = "p177"
    /\ ret' = 0
    /\ run' = IF txhead = txtail THEN 0 ELSE run
    /\ UNCHANGED <<fi, fj, fc, tmp, pend, accepted, got, setups>>
    /\ UNCHANGED <<queue, counters, CR1, nvic, charSigned, out, rxStored, nrx, ntx>>

\* line 177: i = uart0.txhead + 1;
putch_177 ==
    /\ pc = "p177"
    /\ fi' = txhead + 1
    /\ pc' = "p178"
    /\ UNCHANGED <<arg, fj, fc, tmp, pend, ret, accepted, got, nput, setups>>
    /\ UNCHANGED <<queue, counters, CR1, nvic, charSigned, out, rxStored, nrx, ntx, run>>

\* Mutant of TxWrap: the wrap tests > instead of >=.
TxWrap_late(i) == IF i > UART_TXBUF_SIZE THEN 0 ELSE i

\* line 178: if (i >= UART_TXBUF_SIZE) i = 0;
TxWrap(i) == IF i >= UART_TXBUF_SIZE THEN 0 ELSE i

putch_178 ==
    /\ pc = "p178"
    /\ fi' = TxWrap(fi)
    /\ pc' = "p179"
    /\ UNCHANGED <<arg, fj, fc, tmp, pend, ret, accepted, got, nput, setups>>
    /\ UNCHANGED <<queue, counters, CR1, nvic, charSigned, out, rxStored, nrx, ntx, run>>

\* line 179: j = uart0.txtail;
putch_179 ==
    /\ pc = "p179"
    /\ fj' = txtail
    /\ pc' = "p180"
    /\ UNCHANGED <<arg, fi, fc, tmp, pend, ret, accepted, got, nput, setups>>
    /\ UNCHANGED <<queue, counters, CR1, nvic, charSigned, out, rxStored, nrx, ntx, run>>

\* Mutant of TxFull: the queue is never reported full.
TxFull_never(i, j) == FALSE

\* Mutant of TxFull: the test compares txhead itself, not its successor.
TxFull_onEmpty(i, j) == txhead = j

\* line 180: if (i == j)
TxFull(i, j) == i = j

\* line 181: return -1;  (the int -1 converted to the return type char)
PutchFail == ToChar(-1)

\* lines 180-181
putch_180 ==
    /\ pc = "p180"
    /\ IF TxFull(fi, fj)
          THEN /\ ret' = PutchFail
               /\ pc' = "putch_done"
               /\ fi' = 0 /\ fj' = 0 /\ arg' = 0
               /\ run' = IF run >= 0 THEN run + 1 ELSE run
          ELSE /\ pc' = "p182"
               /\ UNCHANGED <<ret, fi, fj, arg, run>>
    /\ UNCHANGED <<fc, tmp, pend, accepted, got, nput, setups>>
    /\ UNCHANGED <<queue, counters, CR1, nvic, charSigned, out, rxStored, nrx, ntx>>

\* line 182: uart0.txbuf[uart0.txhead] = c;
putch_182 ==
    /\ pc = "p182"
    /\ txbuf' = [txbuf EXCEPT ![txhead] = ToUChar(arg)]
    /\ pc' = "p183"
    /\ UNCHANGED <<arg, fi, fj, fc, tmp, pend, ret, accepted, got, nput, setups>>
    /\ UNCHANGED <<rxbuf, rxhead, rxtail, txhead, txtail>>
    /\ UNCHANGED <<counters, CR1, nvic, charSigned, out, rxStored, nrx, ntx, run>>

\* line 183: uart0.txhead = i;
putch_183 ==
    /\ pc = "p183"
    /\ txhead' = fi
    /\ pc' = "p185r"
    /\ UNCHANGED <<arg, fi, fj, fc, tmp, pend, ret, accepted, got, nput, setups>>
    /\ UNCHANGED <<rxbuf, txbuf, rxhead, rxtail, txtail>>
    /\ UNCHANGED <<counters, CR1, nvic, charSigned, out, rxStored, nrx, ntx, run>>

\* line 185: USART_CR1 |= USART_TXEIE;  the read of the register ...
putch_185r ==
    /\ pc = "p185r"
    /\ tmp' = CR1
    /\ pc' = "p185w"
    /\ UNCHANGED <<arg, fi, fj, fc, pend, ret, accepted, got, nput, setups>>
    /\ UNCHANGED <<queue, counters, CR1, nvic, charSigned, out, rxStored, nrx, ntx, run>>

\* Mutant of putch_185w: the value read is written back without the bit.
putch_185w_noOr ==
    /\ pc = "p185w"
    /\ CR1' = tmp
    /\ pc' = "p186"
    /\ UNCHANGED <<arg, fi, fj, fc, tmp, pend, ret, accepted, got, nput, setups>>
    /\ UNCHANGED <<queue, counters, nvic, charSigned, out, rxStored, nrx, ntx, run>>

\* Mutant of putch_185w: "=" in place of "|=".
putch_185w_assign ==
    /\ pc = "p185w"
    /\ CR1' = {USART_TXEIE}
    /\ pc' = "p186"
    /\ UNCHANGED <<arg, fi, fj, fc, tmp, pend, ret, accepted, got, nput, setups>>
    /\ UNCHANGED <<queue, counters, nvic, charSigned, out, rxStored, nrx, ntx, run>>

\* ... and the write of the value read with the bit set
putch_185w ==
    /\ pc = "p185w"
    /\ CR1' = tmp \cup {USART_TXEIE}
    /\ pc' = "p186"
    /\ UNCHANGED <<arg, fi, fj, fc, tmp, pend, ret, accepted, got, nput, setups>>
    /\ UNCHANGED <<queue, counters, nvic, charSigned, out, rxStored, nrx, ntx, run>>

\* line 186: return 0;
putch_186 ==
    /\ pc = "p186"
    /\ ret' = ToChar(0)
    /\ accepted' = Append(accepted, ToUChar(arg))
    /\ pc' = "putch_done"
    /\ fi' = 0 /\ fj' = 0 /\ arg' = 0 /\ tmp' = {}
    /\ run' = IF run >= 0 THEN run + 1 ELSE run
    /\ UNCHANGED <<fc, pend, got, nput, setups>>
    /\ UNCHANGED <<queue, counters, CR1, nvic, charSigned, out, rxStored, nrx, ntx>>

uart_putch ==
    \/ \E b \in TxInput(nput) : putch_call(ToChar(b))
    \/ putch_177 \/ putch_178 \/ putch_179 \/ putch_180 \/ putch_182
    \/ putch_183 \/ putch_185r \/ putch_185w \/ putch_186

----------------------------------------------------------------------------
(* setup_uart, lines 194-219 *)

\* Entry of setup_uart.  The histories restart with the port.
setup_enter ==
    /\ setups' = setups + 1
    /\ pc' = "s197"
    /\ pend' = {"serial_txbytes", "serial_rxbytes"}
    /\ ret' = 0
    /\ out' = <<>> /\ accepted' = <<>> /\ rxStored' = <<>> /\ got' = <<>>
    /\ run' = -1
    /\ ntx' = 0
    /\ UNCHANGED <<arg, fi, fj, fc, tmp, nput, nrx>>
    /\ UNCHANGED <<queue, counters, CR1, nvic, charSigned>>

\* The program's first call, on the zero-initialised state.
setup_call ==
    /\ pc = "start"
    /\ setup_enter

\* A later call, with the port running.
setup_again ==
    /\ pc \in Idle
    /\ setups < MaxSetup
    /\ setup_enter

\* line 197: serial_txbytes = serial_rxbytes = 0;  the two stores of the
\* chained assignment are unsequenced: any order
setup_197 ==
    /\ pc = "s197"
    /\ \E f \in pend :
         /\ serial_txbytes' = IF f = "serial_txbytes" THEN 0 ELSE serial_txbytes
         /\ serial_rxbytes' = IF f = "serial_rxbytes" THEN 0 ELSE serial_rxbytes
         /\ IF pend = {f}
               THEN /\ pc' = "s198"
                    /\ pend' = {"rxhead", "txhead", "rxtail", "txtail"}
               ELSE /\ pc' = pc
                    /\ pend' = pend \ {f}
    /\ UNCHANGED <<arg, fi, fj, fc, tmp, ret, accepted, got, nput, setups>>
    /\ UNCHANGED <<queue, CR1, nvic, charSigned, out, rxStored, nrx, ntx, run>>

\* line 198: uart0.rxhead = uart0.txhead = uart0.rxtail = uart0.txtail = 0;
\* four stores, any order
setup_198 ==
    /\ pc = "s198"
    /\ \E f \in pend :
         /\ rxhead' = IF f = "rxhead" THEN 0 ELSE rxhead
         /\ txhead' = IF f = "txhead" THEN 0 ELSE txhead
         /\ rxtail' = IF f = "rxtail" THEN 0 ELSE rxtail
         /\ txtail' = IF f = "txtail" THEN 0 ELSE txtail
         /\ IF pend = {f}
               THEN /\ pc' = "s205"
                    /\ pend' = {}
               ELSE /\ pc' = pc
                    /\ pend' = pend \ {f}
    /\ UNCHANGED <<arg, fi, fj, fc, tmp, ret, accepted, got, nput, setups>>
    /\ UNCHANGED <<rxbuf, txbuf>>
    /\ UNCHANGED <<counters, CR1, nvic, charSigned, out, rxStored, nrx, ntx, run>>

\* lines 205-209: USART_BRR, USART_SR, USART_CR2, USART_CR3 are written;
\* none of them is read by the queue code
setup_205 ==
    /\ pc = "s205"
    /\ pc' = "s214"
    /\ UNCHANGED <<arg, fi, fj, fc, tmp, pend, ret, accepted, got, nput, setups>>
    /\ UNCHANGED <<queue, counters, CR1, nvic, charSigned, out, rxStored, nrx, ntx, run>>

\* line 214: INTR_SETENA(USART_Intr);
setup_214 ==
    /\ pc = "s214"
    /\ nvic' = TRUE
    /\ pc' = "s216"
    /\ UNCHANGED <<arg, fi, fj, fc, tmp, pend, ret, accepted, got, nput, setups>>
    /\ UNCHANGED <<queue, counters, CR1, charSigned, out, rxStored, nrx, ntx, run>>

\* Mutant of SetupCR1: setup_uart also sets the transmit-ready enable bit.
SetupCR1_withTxeie == {USART_UE, USART_TE, USART_RE, USART_RXNEIE, USART_TXEIE}

\* line 216: USART_CR1 = USART_UE | USART_TE | USART_RE | USART_RXNEIE;
SetupCR1 == {USART_UE, USART_TE, USART_RE, USART_RXNEIE}

setup_216 ==
    /\ pc = "s216"
    /\ CR1' = SetupCR1
    /\ pc' = "s218"
    /\ UNCHANGED <<arg, fi, fj, fc, tmp, pend, ret, accepted, got, nput, setups>>
    /\ UNCHANGED <<queue, counters, nvic, charSigned, out, rxStored, nrx, ntx, run>>

\* line 218: return;
setup_218 ==
    /\ pc = "s218"
    /\ pc' = "setup_done"
    /\ UNCHANGED <<arg, fi, fj, fc, tmp, pend, ret, accepted, got, nput, setups>>
    /\ UNCHANGED <<queue, counters, CR1, nvic, charSigned, out, rxStored, nrx, ntx, run>>

setup_uart ==
    \/ setup_call \/ setup_197 \/ setup_198 \/ setup_205 \/ setup_214
    \/ setup_216 \/ setup_218

----------------------------------------------------------------------------
\* A program that calls setup_uart once, then uart_putch and uart_getch in
\* any order, with the handler preempting between any two statements.
Next == ISR \/ setup_uart \/ uart_putch \/ uart_getch

Spec == Init /\ [][Next]_vars

\* A program that may also call setup_uart again while the port is running.
NextReset ==
    /\ Next \/ setup_again
    /\ nput' + nrx' <= MaxResetEvents

SpecReset == Init /\ [][NextReset]_vars

\* A handler invocation with the transmitter-ready flag set.  The hardware
\* raises it for as long as the transmit data register is empty and the
\* transmit-ready interrupt is enabled.
IsrTxReady == ISR /\ ntx' # ntx

\* The program of Spec on hardware that does not withhold a transmit-ready
\* interrupt that stays enabled.
SpecLive == Init /\ [][Next]_vars /\ WF_vars(IsrTxReady)

----------------------------------------------------------------------------
(* Queue contents and histories used to state the properties *)

RECURSIVE Slice(_, _, _, _)
\* The bytes of buf from index a (inclusive) to index b (exclusive), wrapping
\* at n.
Slice(buf, a, b, n) ==
    IF a = b THEN <<>> ELSE <<buf[a]>> \o Slice(buf, (a + 1) % n, b, n)

\* The bytes queued for transmission, oldest first.
TxQueue == Slice(txbuf, txtail, txhead, UART_TXBUF_SIZE)

\* The bytes received and not yet removed, oldest first.
RxQueue == Slice(rxbuf, rxtail, rxhead, UART_RXBUF_SIZE)

\* The bytes uart_putch has stored (txhead advanced past them): those it
\* returned 0 for, and the one of a call that has stored and not yet returned.
TxStored ==
    accepted \o (IF pc \in {"p185r", "p185w", "p186"} THEN <<ToUChar(arg)>> ELSE <<>>)

\* The bytes uart_getch has removed (rxtail advanced past them): those it
\* returned, and the one of a call that has removed and not yet returned.
RxRemoved ==
    got \o (IF pc = "g164" THEN <<fc>> ELSE <<>>)

----------------------------------------------------------------------------
\* C1: under any interleaving of the handler with uart_putch, the bytes
\* written to the output register followed by the bytes still queued are
\* exactly the bytes uart_putch stored, in order, each once: nothing is
\* emitted before it was stored, nothing is duplicated, skipped or
\* overwritten before it is emitted.
C1_TxFifo == TxStored = out \o TxQueue

\* A call preempted after its txhead store whose byte has already been
\* emitted, with more bytes sent than the buffer has slots.
C1_Witness ==
    /\ pc = "p186"
    /\ Len(out) = Len(accepted) + 1
    /\ Len(out) > UART_TXBUF_SIZE

\* The stored bytes are the removed ones followed by the queued ones.
RxFifoState == rxStored = RxRemoved \o RxQueue

\* C2: under any interleaving of the handler with uart_getch, the values
\* uart_getch removed followed by the bytes still queued are exactly the
\* bytes the handler stored, in arrival order, each once; the bytes stored
\* are those that arrive while the receive buffer is not full.
C2_RxFifo ==
    /\ RxFifoState
    /\ [][ /\ RxFifoState'
           /\ nrx' # nrx =>
                 rxStored' = IF (rxhead + 1) % UART_RXBUF_SIZE # rxtail
                                THEN rxStored \o <<CHOOSE b \in RxInput(nrx) : TRUE>>
                                ELSE rxStored
         ]_vars

\* uart_getch has returned every stored byte, more than the buffer has slots.
C2_Witness ==
    /\ pc = "getch_done"
    /\ got = rxStored
    /\ Len(got) > UART_RXBUF_SIZE

\* C3: counting the uart_putch calls made since the transmit buffer was empty
\* with no transmit-path handler invocation since, calls 1 .. T-1 return 0
\* and call T fails.
C3_Capacity ==
    (pc = "putch_done" /\ run >= 1) =>
        /\ run <= UART_TXBUF_SIZE - 1 => ret = 0
        /\ run >= UART_TXBUF_SIZE => ret # 0

\* The T-th call of such a run has failed, the run having started at an
\* index other than 0, so that txhead wrapped during it.
C3_Witness ==
    /\ pc = "putch_done"
    /\ run = UART_TXBUF_SIZE
    /\ ret # 0
    /\ txtail # 0
    /\ txhead < txtail

\* C4: a uart_putch call that finds the buffer full (the wrapped txhead + 1
\* equals the txtail it read) returns -1, and no statement of the call up to
\* that return changes txbuf, txhead, txtail, USART_CR1 or the counters.
C4_FullReturnsMinus1 ==
    [][ /\ (pc = "p180" /\ fi = fj /\ pc' # pc) =>
              /\ pc' = "putch_done"
              /\ ret' = -1
        /\ (pc \in {"p177", "p178", "p179", "p180"} /\ pc' # pc /\ pc' # "p182") =>
              UNCHANGED <<txbuf, txhead, txtail, CR1, serial_txbytes, serial_rxbytes>>
      ]_vars

\* What the code does guarantee of such a call: the value returned is -1
\* converted to char (-1 where char is signed, 255 where it is unsigned),
\* never the success value 0, and nothing is changed.
C4_FullFailsNoChange ==
    [][ /\ (pc = "p180" /\ fi = fj /\ pc' # pc) =>
              /\ pc' = "putch_done"
              /\ ret' = (IF charSigned THEN -1 ELSE 255)
              /\ ret' # 0
        /\ (pc \in {"p177", "p178", "p179", "p180"} /\ pc' # pc /\ pc' # "p182") =>
              UNCHANGED <<txbuf, txhead, txtail, CR1, serial_txbytes, serial_rxbytes>>
      ]_vars

\* C5: uart_getch takes the empty branch exactly when the rxtail and rxhead
\* it read are equal, then returns -1 and leaves rxtail, rxhead and rxbuf as
\* they are; otherwise it returns rxbuf[rxtail], a value in 0..255, and
\* advances rxtail by one modulo the buffer size.
C5_Getch ==
    [][ /\ (pc = "g158" /\ pc' # pc) => fi' = rxtail
        /\ (pc = "g159" /\ pc' # pc) => (fi = rxtail /\ fj' = rxhead)
        /\ (pc = "g160" /\ pc' # pc) => (fi = rxtail /\ (pc' = "g166" <=> fi = fj))
        /\ (pc = "g166" /\ pc' # pc) =>
              (pc' = "getch_done" /\ ret' = -1 /\ fi = fj /\ fi = rxtail)
        /\ (pc = "g161" /\ pc' # pc) => (fi # fj /\ fc' = rxbuf[rxtail])
        /\ (pc = "g163" /\ pc' # pc) => rxtail' = (rxtail + 1) % UART_RXBUF_SIZE
        /\ (pc = "g164" /\ pc' # pc) =>
              (pc' = "getch_done" /\ ret' = fc /\ ret' \in 0..255)
        /\ (pc \in {"g158", "g159", "g160", "g161", "g162", "g164", "g166"} /\ pc' # pc) =>
              UNCHANGED <<rxtail, rxhead, rxbuf>>
        /\ (pc = "g163" /\ pc' # pc) => UNCHANGED <<rxhead, rxbuf>>
      ]_vars

\* uart_getch has returned the byte 0xFF.
C5_Witness == pc = "getch_done" /\ ret = 255 /\ Len(got) >= 1

\* C6: every data-available invocation of the handler adds one to
\* serial_rxbytes; one that finds the receive buffer full leaves rxbuf,
\* rxhead, rxtail and with them the queued bytes unchanged.
C6_RxDrop ==
    [][ nrx' # nrx =>
          /\ serial_rxbytes' = (serial_rxbytes + 1) % ULONG_RANGE
          /\ ((rxhead + 1) % UART_RXBUF_SIZE = rxtail) =>
                /\ UNCHANGED <<rxbuf, rxhead, rxtail>>
                /\ RxQueue' = RxQueue
                /\ rxStored' = rxStored
      ]_vars

\* A byte has been dropped on a full buffer and counted.
C6_Witness ==
    /\ nrx > Len(rxStored)
    /\ (rxhead + 1) % UART_RXBUF_SIZE = rxtail
    /\ Len(RxQueue) = UART_RXBUF_SIZE - 1
    /\ serial_rxbytes = nrx % ULONG_RANGE

\* C7 as stated: the handler invocation that writes the last queued byte
\* (txtail = txhead afterwards) leaves the transmit-ready interrupt disabled.
C7_DisabledOnLastByte ==
    [][ (out' # out /\ txtail' = txhead') => USART_TXEIE \notin CR1' ]_vars

\* C7 as amended: a transmit-path invocation that writes a byte leaves
\* USART_CR1 as it was, also when that byte was the last one queued; the
\* interrupt is disabled by an invocation that finds the buffer empty on
\* entry, and that invocation writes nothing.
C7_DisabledOnNextEmpty ==
    [][ serial_txbytes' # serial_txbytes =>
          IF txtail # txhead
             THEN /\ out' = Append(out, txbuf[txtail])
                  /\ txtail' = (txtail + 1) % UART_TXBUF_SIZE
                  /\ CR1' = CR1
             ELSE /\ out' = out
                  /\ txtail' = txtail
                  /\ CR1' = CR1 \ {USART_TXEIE}
      ]_vars

\* Every accepted byte has been emitted, the buffer is empty and the
\* transmit-ready interrupt is still enabled.
C7_Witness ==
    /\ pc = "putch_done"
    /\ Len(out) >= 2
    /\ out = accepted
    /\ txhead = txtail
    /\ USART_TXEIE \in CR1

\* C8: the transmit-ready interrupt enable bit goes from 0 to 1 only in the
\* register write of a uart_putch that stored its byte; setup_uart returns
\* with it 0; a successful uart_putch returns with it 1 unless its byte has
\* already been emitted.
C8_EnabledOnlyByPutch ==
    [][ /\ (USART_TXEIE \notin CR1 /\ USART_TXEIE \in CR1') =>
              (pc = "p185w" /\ pc' = "p186")
        /\ (pc = "s218" /\ pc' = "setup_done") => USART_TXEIE \notin CR1'
        /\ (pc = "p186" /\ pc' = "putch_done" /\ Len(out) <= Len(accepted)) =>
              (ret' = 0 /\ USART_TXEIE \in CR1')
      ]_vars

\* The handler has disabled the interrupt on an empty buffer and a later
\* uart_putch is about to enable it again.
C8_Witness ==
    /\ pc = "p185w"
    /\ Len(accepted) >= 1
    /\ Len(out) = Len(accepted)
    /\ USART_TXEIE \notin CR1
    /\ USART_TXEIE \notin tmp

\* C9: whenever setup_uart returns, the transmit queue is empty, the receive
\* queue holds nothing but bytes received during the call, the receive
\* interrupt is armed and the transmit-ready interrupt is disarmed.
C9_SetupResets ==
    [][ (pc = "s218" /\ pc' = "setup_done") =>
          /\ txhead' = txtail'
          /\ Len(RxQueue') <= Len(rxStored')
          /\ USART_RXNEIE \in CR1'
          /\ USART_TXEIE \notin CR1'
      ]_vars

\* C10: when as many bytes have been removed from a buffer as were stored in
\* it, head = tail; a uart_getch that reads the indices then takes the empty
\* branch (no uart_getch removes a byte that was not stored), and the
\* handler writes no byte that was not stored.
C10_EmptyAfterDrain ==
    /\ Len(RxRemoved) = Len(rxStored) => rxhead = rxtail
    /\ Len(out) = Len(TxStored) => txhead = txtail
    /\ (pc = "g160" /\ Len(got) = Len(rxStored)) => fi = fj
    /\ pc \in {"g161", "g162", "g163"} => Len(got) < Len(rxStored)
    /\ (pc = "getch_done" /\ ret # -1) => Len(got) >= 1
    /\ Len(RxRemoved) <= Len(rxStored)
    /\ Len(out) <= Len(TxStored)

\* Both buffers are empty after more bytes than they have slots went
\* through them, and uart_getch has returned the empty signal.
C10_Witness ==
    /\ pc = "getch_done"
    /\ ret = -1
    /\ Len(got) > UART_RXBUF_SIZE
    /\ Len(got) = Len(rxStored)
    /\ rxhead = rxtail
    /\ Len(out) > UART_TXBUF_SIZE
    /\ Len(out) = Len(accepted)
    /\ txhead = txtail

\* Neither counter changes other than by one step up, modulo its range.
CounterStep ==
    /\ serial_txbytes' \in {serial_txbytes, (serial_txbytes + 1) % ULONG_RANGE}
    /\ serial_rxbytes' \in {serial_rxbytes, (serial_rxbytes + 1) % ULONG_RANGE}

\* serial_txbytes is the number of bytes written to the output register.
TxBytesIsSent == serial_txbytes = Len(out) % ULONG_RANGE

\* serial_txbytes is the number of transmit-path invocations of the handler.
TxBytesIsInvocations == serial_txbytes = ntx % ULONG_RANGE

\* C11 as stated: after setup_uart, serial_txbytes equals (modulo its range)
\* the number of bytes the handler has written to the output register, and
\* neither counter decreases except by wrapping.
C11_TxBytesCountsSent ==
    /\ TxBytesIsSent
    /\ [][TxBytesIsSent' /\ CounterStep]_vars

\* C11 as amended: serial_txbytes equals (modulo its range) the number of
\* transmit-path handler invocations, those that find the buffer empty
\* included, which is at least the number of bytes written; neither counter
\* decreases except by wrapping.
C11_TxBytesCountsInvocations ==
    /\ TxBytesIsInvocations
    /\ [][TxBytesIsInvocations' /\ Len(out') <= ntx' /\ CounterStep]_vars

\* The counter has wrapped and is ahead of the number of bytes written.
C11_Witness ==
    /\ Len(out) >= 1
    /\ ntx > Len(out)
    /\ ntx >= ULONG_RANGE
    /\ serial_txbytes # Len(out) % ULONG_RANGE

\* After the handler has disabled the interrupt (it is off although a
\* uart_putch has enabled it), the invocations outnumber the bytes written.
TxCountAfterDisable ==
    (Len(accepted) >= 1 /\ USART_TXEIE \notin CR1) => ntx >= Len(out) + 1

\* C15: every transmit-path invocation of the handler, whether it writes a
\* byte or finds the buffer empty and disables the interrupt, adds exactly
\* one to serial_txbytes; once K bytes are written and the interrupt has been
\* disabled by a further invocation, at least K+1 invocations were counted.
C15_TxCountPerInvocation ==
    /\ TxCountAfterDisable
    /\ [][ /\ ntx' # ntx => serial_txbytes' = (serial_txbytes + 1) % ULONG_RANGE
           /\ ntx' = ntx => serial_txbytes' = serial_txbytes
           /\ TxCountAfterDisable' /\ TxBytesIsInvocations'
         ]_vars

\* Two bytes were written and a further invocation has disabled the
\* interrupt.
C15_Witness ==
    /\ pc = "putch_done"
    /\ Len(out) >= 2
    /\ out = accepted
    /\ USART_TXEIE \notin CR1
    /\ ntx >= Len(out) + 1

\* C12: in each buffer (head - tail) modulo the capacity is the number of
\* bytes stored and not yet removed, a number from 0 to capacity - 1; so
\* head = tail only when the buffer holds no byte.
C12_Occupancy ==
    /\ (rxhead - rxtail) % UART_RXBUF_SIZE = Len(rxStored) - Len(RxRemoved)
    /\ (txhead - txtail) % UART_TXBUF_SIZE = Len(TxStored) - Len(out)
    /\ Len(rxStored) - Len(RxRemoved) \in 0..(UART_RXBUF_SIZE - 1)
    /\ Len(TxStored) - Len(out) \in 0..(UART_TXBUF_SIZE - 1)
    /\ rxhead = rxtail <=> Len(rxStored) = Len(RxRemoved)
    /\ txhead = txtail <=> Len(TxStored) = Len(out)

\* Both buffers are full, each with its head wrapped below its tail.
C12_Witness ==
    /\ Len(TxStored) - Len(out) = UART_TXBUF_SIZE - 1
    /\ txhead < txtail
    /\ Len(rxStored) - Len(RxRemoved) = UART_RXBUF_SIZE - 1
    /\ rxhead < rxtail

\* C13: the four stored indices are always valid offsets, in the middle of
\* the foreground functions too; the value capacity occurs only in the local
\* i, and i is below the capacity when it is stored or used as an offset.
C13_IndicesInRange ==
    /\ rxhead \in 0..(UART_RXBUF_SIZE - 1)
    /\ rxtail \in 0..(UART_RXBUF_SIZE - 1)
    /\ txhead \in 0..(UART_TXBUF_SIZE - 1)
    /\ txtail \in 0..(UART_TXBUF_SIZE - 1)
    /\ pc \in {"g159", "g160", "g161", "g163"} => fi \in 0..(UART_RXBUF_SIZE - 1)
    /\ pc = "g162" => fi \in 1..UART_RXBUF_SIZE
    /\ pc = "p178" => fi \in 1..UART_TXBUF_SIZE
    /\ pc \in {"p179", "p180", "p182", "p183"} => fi \in 0..(UART_TXBUF_SIZE - 1)

\* The local i of uart_putch holds the capacity, about to be wrapped to 0.
C13_Witness ==
    /\ pc = "p178"
    /\ fi = UART_TXBUF_SIZE
    /\ txhead = UART_TXBUF_SIZE - 1
    /\ txtail # 0

\* What C14 says of the functions' frames: the handler leaves txhead and
\* rxtail unchanged, uart_putch leaves txtail, rxhead, rxtail and rxbuf
\* unchanged, uart_getch leaves rxhead, txhead, txtail and both buffers
\* unchanged.
IndexFrames ==
    /\ UNCHANGED fgvars => UNCHANGED <<txhead, rxtail>>
    /\ (pc \in {"p177", "p178", "p179", "p180", "p182", "p183", "p185r", "p185w", "p186"}
          /\ pc' # pc) => UNCHANGED <<txtail, rxhead, rxtail, rxbuf>>
    /\ (pc \in {"g158", "g159", "g160", "g161", "g162", "g163", "g164", "g166"}
          /\ pc' # pc) => UNCHANGED <<rxhead, txhead, txtail, rxbuf, txbuf>>

\* C14 as stated: rxhead and txtail are written only by the handler, txhead
\* only by uart_putch, rxtail only by uart_getch.
C14_SingleWriter ==
    [][ /\ (rxhead' # rxhead \/ txtail' # txtail) => UNCHANGED fgvars
        /\ txhead' # txhead => pc = "p183"
        /\ rxtail' # rxtail => pc = "g163"
        /\ IndexFrames
      ]_vars

\* C14 as amended: apart from setup_uart, whose line 198 stores 0 to all
\* four indices, rxhead and txtail are written only by the handler, txhead
\* only by uart_putch and rxtail only by uart_getch.
C14_SingleWriterButSetup ==
    [][ /\ (rxhead' # rxhead \/ txtail' # txtail) => (UNCHANGED fgvars \/ pc = "s198")
        /\ txhead' # txhead => pc \in {"p183", "s198"}
        /\ rxtail' # rxtail => pc \in {"g163", "s198"}
        /\ (pc = "s198" /\ pend' # pend) =>
               /\ rxhead' \in {rxhead, 0} /\ rxtail' \in {rxtail, 0}
               /\ txhead' \in {txhead, 0} /\ txtail' \in {txtail, 0}
        /\ IndexFrames
      ]_vars

\* A second setup_uart has stored 0 to txhead and rxhead while the tails it
\* has not yet stored are non-zero.
C14_Witness ==
    /\ pc = "s198"
    /\ setups = 2
    /\ pend = {"rxtail", "txtail"}
    /\ rxtail # 0
    /\ txtail # 0

PutchPcs == {"p177", "p178", "p179", "p180", "p182", "p183", "p185r", "p185w", "p186"}

\* C16: a transmit-path invocation on an empty buffer writes nothing, leaves
\* txtail unchanged and disables the transmit-ready interrupt; the interrupt
\* is enabled again only by uart_putch's write of line 185; and an empty
\* buffer with the interrupt enabled leads to the interrupt disabled, unless
\* uart_putch stores another byte first.
C16_IdleDisables ==
    /\ [][ /\ (ntx' # ntx /\ txhead = txtail) =>
                /\ USART_TXEIE \notin CR1'
                /\ out' = out
                /\ txtail' = txtail
           /\ (USART_TXEIE \notin CR1 /\ USART_TXEIE \in CR1') => pc = "p185w"
         ]_vars
    /\ (txhead = txtail /\ USART_TXEIE \in CR1)
          ~> (USART_TXEIE \notin CR1 \/ txhead # txtail)

\* The transmitter is idle with the interrupt disabled, after the handler has
\* twice found the buffer empty.
C16_Witness ==
    /\ pc \notin PutchPcs
    /\ txhead = txtail
    /\ USART_TXEIE \notin CR1
    /\ Len(out) >= 1
    /\ ntx >= Len(out) + 2

\* C17: outside uart_putch, a non-empty transmit buffer has the
\* transmit-ready interrupt enabled; inside uart_putch the same holds until
\* the byte being queued is stored.
C17_NoLostWakeup ==
    /\ (pc \notin PutchPcs /\ txhead # txtail) => USART_TXEIE \in CR1
    /\ (pc \in {"p177", "p178", "p179", "p180", "p182", "p183", "p186"} /\ txhead # txtail)
          => USART_TXEIE \in CR1

\* uart_putch has returned with bytes queued and the interrupt enabled, after
\* the handler had disabled the interrupt at least once.
C17_Witness ==
    /\ pc = "putch_done"
    /\ txhead # txtail
    /\ USART_TXEIE \in CR1
    /\ ntx > Len(out)
    /\ Len(out) >= 1

\* The k-th byte written to the hardware output register is the k-th byte
\* accepted.
SentAsAccepted(k) ==
    IF Len(out) >= k /\ Len(accepted) >= k THEN out[k] = accepted[k] ELSE FALSE

\* C18: every byte that uart_putch accepted is eventually written to the
\* hardware output register, if the handler is invoked for transmitter-ready
\* whenever that interrupt stays enabled and setup_uart is not called again.
C18_AcceptedIsSent ==
    \A k \in 1..MaxPut : (Len(accepted) >= k) ~> SentAsAccepted(k)

\* All the bytes of MaxPut successful calls have been sent.
C18_Witness ==
    /\ Len(accepted) = MaxPut
    /\ out = accepted
    /\ txhead = txtail

\* The bits that setup_uart sets and that are to stay set.
KeptBits == {USART_UE, USART_TE, USART_RE, USART_RXNEIE}

SetupReturned == setups > 1 \/ (setups = 1 /\ pc \notin {"s197", "s198", "s205", "s214", "s216", "s218"})

\* C19: once setup_uart has returned, the USART, transmitter, receiver and
\* receive-interrupt enable bits are set in every state; the handler and
\* uart_putch change no bit of the control register but the transmit-ready
\* interrupt enable.
C19_RxInterruptStaysEnabled ==
    /\ SetupReturned => KeptBits \subseteq CR1
    /\ [][ /\ SetupReturned' => KeptBits \subseteq CR1'
           /\ pc # "s216" => CR1' \ {USART_TXEIE} = CR1 \ {USART_TXEIE}
         ]_vars

\* uart_putch is between the read and the write of line 185, and the handler
\* has cleared the transmit-ready enable that uart_putch read as set.
C19_Witness ==
    /\ pc = "p185w"
    /\ USART_TXEIE \in tmp
    /\ USART_TXEIE \notin CR1
    /\ KeptBits \subseteq CR1

====
